---- MODULE Spec2Model ----
(***************************************************************************)
(* Model of the Pandoc conversion service (src/docker/pandoc/app.py):      *)
(* the /convert handler (convert_text) with its asset downloads, document  *)
(* rewriting, frontmatter inspection and template fallback, and the        *)
(* /convert-file handler (convert_file).                                   *)
(*                                                                         *)
(* Text is a sequence of symbols.  A symbol is a one-character string      *)
(* ("-", ":", "\n", "!", ...) or an indivisible word ("title", "Body").    *)
(* Paths are sequences of path segments below the filesystem root.         *)
(***************************************************************************)
EXTENDS Integers, Sequences, FiniteSets, TLC

(***************************************************************************)
(* Bounds of the model.                                                    *)
(***************************************************************************)
\* most references (asset ids + attachment ids + urls) in one bundle
MaxRefs == 2

(***************************************************************************)
(* Program constants.                                                      *)
(***************************************************************************)
SUPPORTED_FORMATS == {"pdf", "docx", "odt", "latex", "csv", "html", "epub"}
MAX_FILE_SIZE == 52428800
MAX_ASSET_SIZE == 10485760
\* range(1, min(100, len(lines)))
ScanLimit == 100
\* subprocess.run(..., timeout=120)
EngineTimeout == 120
\* result.stderr[:500]
StderrCut == 500

\* a format check that lets every format pass
MutSupported(format) == TRUE

\* output_format in SUPPORTED_FORMATS
Supported(format) == format \in SUPPORTED_FORMATS

\* Optional[...] = None
Null == "<None>"
\* Python truthiness of an Optional[str]
Truthy(x) == x # Null /\ x # ""

Min(a, b) == IF a < b THEN a ELSE b

(***************************************************************************)
(* Python str operations on symbol sequences.                              *)
(***************************************************************************)
Whitespace == {" ", "\n", "\t"}

\* s[i:i+len(t)] == t
MatchAt(s, t, i) ==
    /\ i + Len(t) - 1 <= Len(s)
    /\ SubSeq(s, i, i + Len(t) - 1) = t

\* t in s
Contains(s, t) == \E i \in 1..(Len(s) + 1) : MatchAt(s, t, i)

\* s.startswith(t)
StartsWith(s, t) == MatchAt(s, t, 1)

RECURSIVE LStrip(_)
LStrip(s) ==
    IF s # <<>> /\ Head(s) \in Whitespace THEN LStrip(Tail(s)) ELSE s

RECURSIVE RStrip(_)
RStrip(s) ==
    IF s # <<>> /\ s[Len(s)] \in Whitespace
    THEN RStrip(SubSeq(s, 1, Len(s) - 1))
    ELSE s

\* s.strip()
Strip(s) == RStrip(LStrip(s))

\* index of the first sep in s at or after i, 0 when there is none
RECURSIVE FindFrom(_, _, _)
FindFrom(s, sep, i) ==
    IF i > Len(s) THEN 0
    ELSE IF s[i] = sep THEN i
    ELSE FindFrom(s, sep, i + 1)

\* s.split(sep) for a one-symbol separator: the pieces between the
\* separators, in order, one more than there are separators.  Computed by
\* halves: the last piece of the left half and the first piece of the right
\* half are one piece of the whole.
RECURSIVE Split(_, _)
Split(s, sep) ==
    IF Len(s) = 0 THEN << <<>> >>
    ELSE IF Len(s) = 1 THEN (IF s[1] = sep THEN << <<>>, <<>> >> ELSE << s >>)
    ELSE LET h == Len(s) \div 2
             left == Split(SubSeq(s, 1, h), sep)
             right == Split(SubSeq(s, h + 1, Len(s)), sep)
         IN  SubSeq(left, 1, Len(left) - 1)
                \o << left[Len(left)] \o Head(right) >>
                \o Tail(right)

\* s.replace(old, new) for old = "": new before every symbol and at the end
RECURSIVE Interleave(_, _)
Interleave(s, new) ==
    IF s = <<>> THEN new
    ELSE new \o << Head(s) >> \o Interleave(Tail(s), new)

RECURSIVE ReplaceFrom(_, _, _, _)
ReplaceFrom(s, old, new, i) ==
    IF i > Len(s) THEN <<>>
    ELSE IF MatchAt(s, old, i)
         THEN new \o ReplaceFrom(s, old, new, i + Len(old))
         ELSE << s[i] >> \o ReplaceFrom(s, old, new, i + 1)

\* s.replace(old, new): leftmost, non-overlapping, every occurrence
Replace(s, old, new) ==
    IF old = <<>> THEN Interleave(s, new) ELSE ReplaceFrom(s, old, new, 1)

\* re.sub of the image embed of url (an exclamation mark, the alt text in
\* square brackets, the url in parentheses) by [Image unavailable: alt]
\* the end of the alt text of an image embed that starts at i and references
\* url, 0 when no embed of url starts at i.  The alt group is greedy over
\* symbols other than "]" and must be followed by "]": the alt text runs to
\* the first "]" after the opening bracket.
EmbedAltEnd(s, url, i) ==
    IF ~MatchAt(s, << "!", "[" >>, i) THEN 0
    ELSE LET k == FindFrom(s, "]", i + 2)
         IN  IF k = 0 THEN 0
             ELSE IF MatchAt(s, << "]", "(" >> \o url \o << ")" >>, k)
                  THEN k
                  ELSE 0

RECURSIVE RemoveEmbedsFrom(_, _, _)
RemoveEmbedsFrom(s, url, i) ==
    IF i > Len(s) THEN <<>>
    ELSE LET k == EmbedAltEnd(s, url, i)
         IN  IF k # 0
             THEN << "[", "Image unavailable: " >> \o SubSeq(s, i + 2, k - 1)
                    \o << "]" >>
                    \o RemoveEmbedsFrom(s, url, k + Len(url) + 3)
             ELSE << s[i] >> \o RemoveEmbedsFrom(s, url, i + 1)

\* a removal of the target of every reference to url, whatever its syntax
MutRemoveEmbeds(s, url) == Replace(s, << "(" >> \o url \o << ")" >>, <<>>)

RemoveEmbeds(s, url) == RemoveEmbedsFrom(s, url, 1)

(***************************************************************************)
(* Frontmatter inspection (convert_text).                                  *)
(***************************************************************************)
Delimiter == << "-", "-", "-" >>

\* a scan for the closing line that runs to the end of the text
RECURSIVE MutClosingFrom(_, _)
MutClosingFrom(lines, j) ==
    IF j > Len(lines) THEN 0
    ELSE IF Strip(lines[j]) = Delimiter THEN j
    ELSE MutClosingFrom(lines, j + 1)

\* the 1-based index of the line that closes the frontmatter block: the
\* first i in range(1, min(100, len(lines))) with lines[i].strip() == '---';
\* 0 when the text is not classified as having frontmatter
RECURSIVE ClosingFrom(_, _)
ClosingFrom(lines, j) ==
    IF j > Min(ScanLimit, Len(lines)) THEN 0
    ELSE IF Strip(lines[j]) = Delimiter THEN j
    ELSE ClosingFrom(lines, j + 1)

ClosingLine(text) ==
    LET lines == Split(text, "\n")
    IN  IF StartsWith(Strip(text), Delimiter) /\ Len(lines) > 2
        THEN ClosingFrom(lines, 2)
        ELSE 0

\* has_frontmatter
HasFrontmatter(text) == ClosingLine(text) # 0

\* the line contributes a field name
IsFieldLine(line) ==
    /\ Contains(line, << ":" >>)
    /\ ~StartsWith(Strip(line), << "#" >>)

\* line.split(':')[0].strip()
FieldOf(line) == Strip(Split(line, ":")[1])

\* frontmatter_fields
FrontmatterFields(text) ==
    LET lines == Split(text, "\n")
        c == ClosingLine(text)
    IN  { FieldOf(lines[k]) : k \in { n \in 2..(c - 1) : IsFieldLine(lines[n]) } }

(***************************************************************************)
(* Paths and the filesystem.  A path is the sequence of its segments below *)
(* the root, a segment a text; a file name (as a server or a client        *)
(* supplies it) is relative or absolute.                                   *)
(***************************************************************************)
\* tempfile.TemporaryDirectory()
TmpDir == << << "tmp" >>, << "ws" >> >>
\* tmpdir_path / "assets"
AssetsDir == Append(TmpDir, << "assets" >>)
TEMPLATES_DIR == << << "app" >>, << "templates" >> >>

FileName(abs, segs) == [abs |-> abs, segs |-> segs]
Rel(segs) == FileName(FALSE, segs)

\* dir / name (pathlib): an absolute right operand replaces the left one
Join(dir, name) == IF name.abs THEN name.segs ELSE dir \o name.segs

\* the file the operating system opens for a path: ".." steps to the parent
RECURSIVE Resolve(_, _)
Resolve(done, rest) ==
    IF rest = <<>> THEN done
    ELSE IF Head(rest) = << ".." >>
         THEN Resolve(IF done = <<>> THEN <<>>
                      ELSE SubSeq(done, 1, Len(done) - 1), Tail(rest))
         ELSE Resolve(Append(done, Head(rest)), Tail(rest))

Normal(path) == Resolve(<<>>, path)

\* str(path) as text
RECURSIVE PathText(_)
PathText(path) ==
    IF path = <<>> THEN <<>>
    ELSE << "/" >> \o Head(path) \o PathText(Tail(path))

IsUnder(path, dir) ==
    /\ Len(path) > Len(dir)
    /\ SubSeq(path, 1, Len(dir)) = dir

\* the directories that exist before any request
BaseDirs == { <<>>, << << "tmp" >> >>, << << "app" >> >>, TEMPLATES_DIR }

\* write_bytes / write_text / open("wb") succeed when the parent directory
\* exists and the path is not itself a directory
CanWrite(ds, path) ==
    LET p == Normal(path)
    IN  /\ p # <<>>
        /\ p \notin ds
        /\ SubSeq(p, 1, Len(p) - 1) \in ds

\* Path(text): the segments between the "/" symbols, empty ones dropped;
\* absolute when the text starts with "/"
ParseName(text) ==
    LET parts == Split(text, "/")
    IN  FileName(text # <<>> /\ Head(text) = "/",
                 SelectSeq(parts, LAMBDA x : x # <<>> /\ x # << "." >>))

\* the filesystem is a function from the (resolved) paths of its files to
\* their contents
WriteFile(fs, path, data) ==
    LET p == Normal(path)
    IN  [q \in DOMAIN fs \cup {p} |-> IF q = p THEN data ELSE fs[q]]

\* TemporaryDirectory.__exit__: the directory and all below it are removed
Cleanup(fs) ==
    [q \in { r \in DOMAIN fs : ~IsUnder(r, TmpDir) } |-> fs[q]]

CleanupDirs(ds) == { d \in ds : d # TmpDir /\ ~IsUnder(d, TmpDir) }

(***************************************************************************)
(* The three downloads.  A response of the remote end is                   *)
(* [status, size, header]: status "ok" is a 2xx answer; every other status *)
(* makes client.get or raise_for_status raise.  header is the text of the  *)
(* content-disposition header.  disk is what the disk does to the write of *)
(* the downloaded bytes: "ok", or "full" when it runs out of space after   *)
(* the file was opened.                                                    *)
(***************************************************************************)
FetchResponse(status, size, header, disk) ==
    [status |-> status, size |-> size, header |-> header, disk |-> disk]

\* a download's return value and the filesystem it leaves
Downloaded(path, fs) == [ok |-> TRUE, path |-> path, files |-> fs]
NotDownloaded(fs) == [ok |-> FALSE, path |-> <<>>, files |-> fs]

Extensions == { ".png", ".jpg", ".pdf" }

\* Path(url).suffix or '.jpg'
UrlExt(url) ==
    IF url # <<>> /\ url[Len(url)] \in Extensions
    THEN url[Len(url)]
    ELSE ".jpg"

\* hashlib.md5(url.encode()).hexdigest()[:8]: the digest is one symbol, a
\* different one for every url the model draws
UrlHash(url) == << ToString(url) >>

\* dest.write_bytes(response.content): open("wb") creates the file, then the
\* bytes are written; a write that fails leaves the file with what had been
\* written
WriteBytes(ds, fs, dest, data, disk) ==
    IF ~CanWrite(ds, dest) THEN [ok |-> FALSE, files |-> fs]
    ELSE IF disk = "ok" THEN [ok |-> TRUE, files |-> WriteFile(fs, dest, data)]
    ELSE [ok |-> FALSE, files |-> WriteFile(fs, dest, << "partial" >>)]

\* download_url: the file that holds the response, or None
download_url(url, dest_dir, resp, ds, fs) ==
    IF resp.status # "ok" THEN NotDownloaded(fs)
    ELSE IF resp.size > MAX_ASSET_SIZE THEN NotDownloaded(fs)
    ELSE LET filename == << "url_" >> \o UrlHash(url) \o << UrlExt(url) >>
             dest == Append(dest_dir, filename)
             written == WriteBytes(ds, fs, dest, << "url" >> \o url, resp.disk)
         IN  IF written.ok THEN Downloaded(dest, written.files)
             ELSE NotDownloaded(written.files)

\* content_disposition.split('filename=')[1].strip('"')
RECURSIVE StripQuotes(_)
StripQuotes(s) ==
    IF s # <<>> /\ Head(s) = "\"" THEN StripQuotes(Tail(s))
    ELSE IF s # <<>> /\ s[Len(s)] = "\"" THEN StripQuotes(SubSeq(s, 1, Len(s) - 1))
    ELSE s

DispositionName(header) == StripQuotes(Split(header, "filename=")[2])

\* download_asset and download_attachment differ in the endpoint and in the
\* default file name only: kind is "asset" or "attachment"
DownloadInternal(kind, id, dest_dir, resp, ds, fs) ==
    IF resp.status # "ok" THEN NotDownloaded(fs)
    ELSE IF resp.size > MAX_ASSET_SIZE THEN NotDownloaded(fs)
    ELSE LET filename ==
                 IF Contains(resp.header, << "filename=" >>)
                 THEN ParseName(DispositionName(resp.header))
                 ELSE Rel(<< << kind, "_" >> \o id \o << ".jpg" >> >>)
             dest == Join(dest_dir, filename)
             written == WriteBytes(ds, fs, dest, << kind >> \o id, resp.disk)
         IN  IF written.ok THEN Downloaded(dest, written.files)
             ELSE NotDownloaded(written.files)

download_asset(asset_id, dest_dir, resp, ds, fs) ==
    DownloadInternal("asset", asset_id, dest_dir, resp, ds, fs)

download_attachment(attachment_id, dest_dir, resp, ds, fs) ==
    DownloadInternal("attachment", attachment_id, dest_dir, resp, ds, fs)

(***************************************************************************)
(* The inputs the model draws from.                                        *)
(***************************************************************************)
\* a JSON value used as a replacement token or a url: a string, a number,
\* or a list (unhashable, so no dict key)
Str(text) == [type |-> "str", text |-> text]
NonStr == [type |-> "int", text |-> <<>>]
Unhashable == [type |-> "list", text |-> <<>>]

\* a JSON value used as a bundle field: a list, or a value that cannot be
\* iterated and has no len() (a number, null)
List(items) == [iter |-> TRUE, items |-> items]
NotAList == [iter |-> FALSE, items |-> <<>>]

AssetId == << "1" >>
AttachmentId == << "7" >>
AttachmentUrl == << "att://", "7" >>
Url1 == << "http://x/", "img", ".png" >>

\* f"asset://{asset_id}"
AssetToken(asset_id) == << "asset://" >> \o asset_id

\* sequences over S of length n
RECURSIVE SeqsOfLen(_, _)
SeqsOfLen(S, n) ==
    IF n = 0 THEN { <<>> }
    ELSE { Append(q, x) : q \in SeqsOfLen(S, n - 1), x \in S }

SeqsUpTo(S, n) == UNION { SeqsOfLen(S, k) : k \in 0..n }

\* the assets form field: None or "", text that is no JSON, JSON that is no
\* object, or a JSON object
NoBundle ==
    [kind |-> "none", assets |-> List(<<>>), attachments |-> List(<<>>),
     attachment_urls |-> List(<<>>), urls |-> List(<<>>)]

Bundle(a, t, tu, u) ==
    [kind |-> "object", assets |-> a, attachments |-> t,
     attachment_urls |-> tu, urls |-> u]

\* objects whose fields are lists, the tokens and urls strings or numbers
ListBundles ==
    { Bundle(List(a), List(t), List(tu), List(u)) :
        a \in SeqsUpTo({ AssetId }, MaxRefs),
        t \in SeqsUpTo({ AttachmentId }, MaxRefs),
        tu \in SeqsUpTo({ Str(AttachmentUrl), NonStr }, MaxRefs),
        u \in SeqsUpTo({ Str(Url1), NonStr }, MaxRefs) }

\* objects with one field that is no list, or with a token that is a list
WrongFieldBundles ==
    { Bundle(NotAList, List(<< AttachmentId >>), List(<<>>), List(<<>>)),
      Bundle(List(<< AssetId >>), NotAList, List(<<>>), List(<<>>)),
      Bundle(List(<<>>), List(<< AttachmentId >>), NotAList, List(<<>>)),
      Bundle(List(<< AssetId >>), List(<<>>), List(<<>>), NotAList),
      Bundle(List(<< AssetId >>), List(<< AttachmentId >>),
             List(<< Unhashable >>), List(<<>>)) }

RefCount(b) ==
    Len(b.assets.items) + Len(b.attachments.items) + Len(b.urls.items)

Bundles ==
    { NoBundle, [NoBundle EXCEPT !.kind = "malformed"],
      [NoBundle EXCEPT !.kind = "nonobject"] }
        \cup WrongFieldBundles
        \cup { b \in ListBundles :
                 /\ RefCount(b) <= MaxRefs
                 /\ Len(b.attachment_urls.items) <= Len(b.attachments.items) }

\* a bundle every field of which has the type the handler expects
ValidBundle(b) ==
    /\ b.kind = "object"
    /\ b.assets.iter /\ b.attachments.iter
    /\ b.attachment_urls.iter /\ b.urls.iter
    /\ \A k \in 1..Len(b.attachment_urls.items) :
          b.attachment_urls.items[k].type = "str"
    /\ \A k \in 1..Len(b.urls.items) : b.urls.items[k].type = "str"

\* the colors and fonts form fields: None or "", text that is no JSON, JSON
\* that is no object, or a JSON object of variables
NoVars == [kind |-> "none", vars |-> <<>>]
Var(key, value) == [key |-> key, value |-> value]
ColorInputs ==
    { NoVars, [NoVars EXCEPT !.kind = "malformed"],
      [NoVars EXCEPT !.kind = "nonobject"],
      [kind |-> "object", vars |-> << Var("linkcolor", "red") >>] }
FontInputs ==
    { NoVars, [NoVars EXCEPT !.kind = "malformed"],
      [kind |-> "object", vars |-> << Var("mainfont", "Arial") >>] }

\* documents
DocTitle ==
    << "-", "-", "-", "\n", "title", ":", " ", "Foo", "\n",
       "-", "-", "-", "\n", "Body" >>
DocMeta ==
    << "-", "-", "-", "\n", "author", ":", " ", "Ann", "\n",
       "date", ":", " " >> \o AssetToken(AssetId) \o
    << "\n", "-", "-", "-", "\n", "!", "[", "alt", "]", "(" >> \o Url1 \o
    << ")", " " >> \o AttachmentUrl
DocOpen == << "-", "-", "-", "\n", "title", ":", " ", "Foo", "\n", "Body" >>
DocPlain == << "Body", " " >> \o AssetToken(AssetId)
Documents == { DocTitle, DocMeta, DocOpen, DocPlain }

Formats == { "pdf", "html", "xyz" }
Templates == { Null, "", "custom", "missing" }
Titles == { Null, "Bar" }
Authors == { Null, "Ann" }

\* the headers a server answers with
Headers ==
    { <<>>,
      << "attachment; ", "filename=", "\"", "pic", ".png", "\"" >>,
      << "filename=", "..", "/", "..", "/", "evil", ".jpg" >>,
      << "filename=", "\"", "/", "app", "/", "templates", "/", "custom",
         ".latex", "\"" >>,
      << "filename=", "sub", "/", "pic", ".png" >> }

FetchResponses ==
    { FetchResponse(st, 0, <<>>, "ok") :
        st \in { "network", "timeout", "http_error" } }
        \cup { FetchResponse("ok", n, h, "ok") :
                 n \in { 1, MAX_ASSET_SIZE, MAX_ASSET_SIZE + 1 }, h \in Headers }

\* what one run of the engine does: how long it takes, and when it ends its
\* exit code and its stderr (its length, and whether "! LaTeX Error" is in it)
EngineResult(duration, code, len, latex) ==
    [duration |-> duration, returncode |-> code,
     stderr |-> [len |-> len, latex |-> latex]]
EngineResults ==
    { EngineResult(5, 0, 0, FALSE),
      EngineResult(EngineTimeout + 1, 0, 0, FALSE),
      EngineResult(5, 1, 40, TRUE),
      EngineResult(5, 1, StderrCut + 1, TRUE),
      EngineResult(5, 1, StderrCut, FALSE),
      EngineResult(5, 43, StderrCut + 200, FALSE) }

(***************************************************************************)
(* Requests.                                                               *)
(***************************************************************************)
Request(endpoint, content, format, template, title, author, assets, fonts, colors, filename, size) ==
    [endpoint |-> endpoint, content |-> content, output_format |-> format,
     template |-> template, title |-> title, author |-> author,
     assets |-> assets, fonts |-> fonts, colors |-> colors,
     filename |-> filename, file_size |-> size]

NoRequest ==
    Request("none", <<>>, Null, Null, Null, Null, NoBundle, NoVars, NoVars,
            <<>>, 0)

\* POST /convert: every combination of the engine options without a bundle,
\* and every bundle with one choice of the engine options
TextRequests ==
    { Request("text", d, f, t, ti, au, NoBundle, fo, co, <<>>, 0) :
        d \in Documents, f \in Formats, t \in Templates, ti \in Titles,
        au \in Authors, fo \in FontInputs, co \in ColorInputs }
      \cup
    { Request("text", d, f, "custom", "Bar", Null, b, NoVars, NoVars, <<>>, 0) :
        d \in { DocMeta, DocPlain }, f \in { "pdf", "xyz" }, b \in Bundles }

\* the file names a client uploads under
UploadNames ==
    { << "doc", ".md" >>,
      << "..", "/", "evil", ".md" >>,
      << "/", "app", "/", "templates", "/", "custom", ".latex" >>,
      << "sub", "/", "doc", ".md" >> }

\* POST /convert-file
FileRequests ==
    { Request("file", <<>>, f, t, Null, Null, NoBundle, NoVars, NoVars, n, sz) :
        f \in Formats, t \in Templates, n \in UploadNames,
        sz \in { 1, MAX_FILE_SIZE, MAX_FILE_SIZE + 1 } }

(***************************************************************************)
(* The engine's command line: a sequence of options [flag, key, value].    *)
(***************************************************************************)
Opt(flag, key, value) == [flag |-> flag, key |-> key, value |-> value]

HasFlag(c, flag) == \E k \in 1..Len(c) : c[k].flag = flag
HasOpt(c, flag, key) == \E k \in 1..Len(c) : c[k].flag = flag /\ c[k].key = key
HasOptValue(c, flag, key, value) ==
    \E k \in 1..Len(c) : c[k] = Opt(flag, key, value)

\* linkcolor, urlcolor, toccolor = blue
DefaultColors ==
    << Opt("--variable", "linkcolor", "blue"),
       Opt("--variable", "urlcolor", "blue"),
       Opt("--variable", "toccolor", "blue") >>

VarOptions(vars) ==
    [k \in 1..Len(vars) |-> Opt("--variable", vars[k].key, vars[k].value)]

\* if colors: json.loads(colors).items(), the defaults when that raises;
\* else the defaults
ColorOptions(colors) ==
    IF colors.kind = "object" THEN VarOptions(colors.vars) ELSE DefaultColors

\* if fonts: json.loads(fonts).items(), nothing when that raises
FontOptions(fonts) ==
    IF fonts.kind = "object" THEN VarOptions(fonts.vars) ELSE <<>>

\* TEMPLATES_DIR / f"{template}.latex"
TemplatePath(template) == Append(TEMPLATES_DIR, << template, ".latex" >>)

\* if template: ... if template_path.exists(): --template
TemplateOptions(template, fs) ==
    IF Truthy(template) /\ TemplatePath(template) \in DOMAIN fs
    THEN << Opt("--template", "", template) >>
    ELSE <<>>

\* -M title / author / date only if not present in the frontmatter
MetadataOptions(r, fields) ==
    (IF Truthy(r.title) /\ << "title" >> \notin fields
     THEN << Opt("-M", "title", r.title) >> ELSE <<>>)
    \o (IF Truthy(r.author) /\ << "author" >> \notin fields
        THEN << Opt("-M", "author", r.author) >> ELSE <<>>)
    \o (IF << "date" >> \notin fields
        THEN << Opt("-M", "date", "now") >> ELSE <<>>)

BaseCommand(r) ==
    << Opt("pandoc", "", "input"), Opt("-o", "", r.output_format) >>

\* cmd of convert_text
BuildCommand(r, fields, fs) ==
    BaseCommand(r)
    \o (IF r.output_format = "pdf"
        THEN << Opt("--pdf-engine", "", "xelatex"),
                Opt("--variable", "colorlinks", "true"),
                Opt("--listings", "", ""),
                Opt("--include-in-header", "", "header.tex") >>
             \o ColorOptions(r.colors)
             \o FontOptions(r.fonts)
             \o TemplateOptions(r.template, fs)
        ELSE <<>>)
    \o MetadataOptions(r, fields)

\* the metadata of cmd_fallback
FallbackMetadata(r) ==
    (IF Truthy(r.title) THEN << Opt("-M", "title", r.title) >> ELSE <<>>)
    \o (IF Truthy(r.author) THEN << Opt("-M", "author", r.author) >> ELSE <<>>)
    \o << Opt("-M", "date", "now") >>

\* a fallback that keeps the template and the header of the first attempt
MutBuildFallback(r) ==
    BaseCommand(r)
    \o << Opt("--pdf-engine", "", "xelatex"),
          Opt("--variable", "colorlinks", "true"),
          Opt("--include-in-header", "", "header.tex") >>
    \o ColorOptions(r.colors)
    \o << Opt("--listings", "", ""), Opt("--template", "", r.template) >>
    \o FallbackMetadata(r)

\* cmd_fallback of convert_text
BuildFallback(r) ==
    BaseCommand(r)
    \o << Opt("--pdf-engine", "", "xelatex"),
          Opt("--variable", "colorlinks", "true") >>
    \o DefaultColors
    \o << Opt("--listings", "", "") >>
    \o FallbackMetadata(r)

\* cmd of convert_file
BuildFileCommand(r, fs) ==
    BaseCommand(r)
    \o (IF r.output_format = "pdf" /\ Truthy(r.template)
           /\ TemplatePath(r.template) \in DOMAIN fs
        THEN << Opt("--template", "", r.template),
                Opt("--pdf-engine", "", "xelatex") >>
        ELSE <<>>)

\* a retry condition that forgets the template
MutRetryWithoutTemplate(r, result) ==
    /\ r.output_format = "pdf"
    /\ result.stderr.latex

\* output_format == "pdf" and template and "! LaTeX Error" in error_details
RetryWithoutTemplate(r, result) ==
    /\ r.output_format = "pdf"
    /\ Truthy(r.template)
    /\ result.stderr.latex

\* a run without a timeout
MutTimedOut(result) == FALSE

\* subprocess.run(..., timeout=120) raises TimeoutExpired
TimedOut(result) == result.duration > EngineTimeout

(***************************************************************************)
(* Responses.                                                              *)
(***************************************************************************)
\* status, the body (the output bytes), the detail of an error and how many
\* characters of the engine's stderr the detail carries
Reply(status, body, detail, shown) ==
    [status |-> status, body |-> body, detail |-> detail,
     stderr_shown |-> shown]

NoReply == Reply(0, <<>>, "", 0)

(***************************************************************************)
(* State.                                                                  *)
(***************************************************************************)
VARIABLES
    pc,            \* where the handler stands: idle, fetch, rewrite, run1,
                   \* run2, frun, done
    req,           \* the request being served
    content,       \* convert_text's content
    dirs,          \* the directories that exist
    files,         \* the filesystem: path -> contents
    asset_map,     \* convert_text's asset_map, in insertion order
    cursor,        \* the bundle reference the handler downloads next
    outcomes,      \* history: one entry per download call that has returned
    assets_error,  \* history: the except of the bundle processing was taken
    has_frontmatter,
    frontmatter_fields,
    cmd,           \* the command built for the next run of the engine
    invocations,   \* history: the runs of the engine, in order
    response       \* the reply sent

vars ==
    << pc, req, content, dirs, files, asset_map, cursor, outcomes,
       assets_error, has_frontmatter, frontmatter_fields, cmd, invocations,
       response >>

InputFile == Append(TmpDir, << "input", ".md" >>)
HeaderFile == Append(TmpDir, << "header", ".tex" >>)
OutputFile(r) == Append(TmpDir, << "output", ".", r.output_format >>)

NoCursor == [phase |-> "end", i |-> 0]
Raised == [phase |-> "except", i |-> 0]

Field(b, phase) ==
    CASE phase = "assets" -> b.assets
      [] phase = "attachments" -> b.attachments
      [] OTHER -> b.urls

\* the reference the loops of convert_text reach when they stand before index
\* i of phase: iterating a field that is no list raises, an exhausted list
\* hands over to the next loop
RECURSIVE Seek(_, _, _)
Seek(b, phase, i) ==
    IF ~Field(b, phase).iter THEN Raised
    ELSE IF i <= Len(Field(b, phase).items) THEN [phase |-> phase, i |-> i]
    ELSE IF phase = "assets" THEN Seek(b, "attachments", 1)
    ELSE IF phase = "attachments" THEN Seek(b, "urls", 1)
    ELSE NoCursor

\* json.loads(assets), asset_data.get(...): where the processing starts
FirstCursor(b) ==
    CASE b.kind = "none" -> NoCursor
      [] b.kind = "object" -> Seek(b, "assets", 1)
      [] OTHER -> Raised

\* an assignment that replaces the map
MutPut(m, key, local) == << [key |-> key, local |-> local] >>

\* asset_map[key] = local
RECURSIVE Put(_, _, _)
Put(m, key, local) ==
    IF m = <<>> THEN << [key |-> key, local |-> local] >>
    ELSE IF Head(m).key = key
         THEN << [key |-> key, local |-> local] >> \o Tail(m)
         ELSE << Head(m) >> \o Put(Tail(m), key, local)

HasKey(m, key) == \E k \in 1..Len(m) : m[k].key = key

\* for original, local in asset_map.items(): content.replace(original, local)
RECURSIVE ApplyMap(_, _)
ApplyMap(text, m) ==
    IF m = <<>> THEN text
    ELSE ApplyMap(Replace(text, Head(m).key.text, Head(m).local), Tail(m))

\* str.replace raises TypeError for a key that is no string
ReplaceRaises(m) == \E k \in 1..Len(m) : m[k].key.type # "str"

Outcome(kind, i, ok) == [kind |-> kind, i |-> i, ok |-> ok]

\* the files that exist before any request: the template on disk
InitialFiles == [q \in { TemplatePath("custom") } |-> << "template" >>]

Init ==
    /\ pc = "idle"
    /\ req = NoRequest
    /\ content = <<>>
    /\ dirs = BaseDirs
    /\ files = InitialFiles
    /\ asset_map = <<>>
    /\ cursor = NoCursor
    /\ outcomes = <<>>
    /\ assets_error = FALSE
    /\ has_frontmatter = FALSE
    /\ frontmatter_fields = {}
    /\ cmd = <<>>
    /\ invocations = <<>>
    /\ response = NoReply

\* the handler returns or raises: the with block removes the workspace
Finish(reply, fs) ==
    /\ pc' = "done"
    /\ response' = reply
    /\ files' = Cleanup(fs)
    /\ dirs' = CleanupDirs(dirs)

\* the position after a download: the next reference, or on to the rewriting
Goto(c) ==
    /\ cursor' = c
    /\ pc' = IF c.phase \in { "end", "except" } THEN "rewrite" ELSE "fetch"
    /\ assets_error' = (c.phase = "except")

(***************************************************************************)
(* POST /convert                                                           *)
(***************************************************************************)
\* entry: the format check, the workspace, json.loads and the first loop head
ConvertText(r) ==
    /\ pc = "idle"
    /\ req' = r
    /\ IF ~Supported(r.output_format)
       THEN /\ pc' = "done"
            /\ response' = Reply(400, <<>>, "Unsupported format", 0)
            /\ UNCHANGED << content, dirs, files, asset_map, cursor,
                            assets_error >>
       ELSE /\ dirs' = dirs \cup { TmpDir, AssetsDir }
            /\ content' = r.content
            /\ asset_map' = <<>>
            /\ Goto(FirstCursor(r.assets))
            /\ UNCHANGED << files, response >>
    /\ UNCHANGED << outcomes, has_frontmatter, frontmatter_fields, cmd,
                    invocations >>

\* a turn that drops the token of an asset that could not be downloaded
MutFetchAsset(resp) ==
    /\ pc = "fetch" /\ cursor.phase = "assets"
    /\ LET id == req.assets.assets.items[cursor.i]
           local == download_asset(id, AssetsDir, resp, dirs, files)
       IN  /\ files' = local.files
           /\ outcomes' = Append(outcomes, Outcome("asset", cursor.i, local.ok))
           /\ asset_map' = IF local.ok
                           THEN Put(asset_map, Str(AssetToken(id)),
                                    PathText(local.path))
                           ELSE asset_map
           /\ content' = IF local.ok THEN content
                         ELSE Replace(content, AssetToken(id), <<>>)
           /\ Goto(Seek(req.assets, "assets", cursor.i + 1))
    /\ UNCHANGED << req, dirs, has_frontmatter, frontmatter_fields, cmd,
                    invocations, response >>

\* one turn of "for asset_id in asset_data.get('assets', [])"
FetchAsset(resp) ==
    /\ pc = "fetch" /\ cursor.phase = "assets"
    /\ LET id == req.assets.assets.items[cursor.i]
           local == download_asset(id, AssetsDir, resp, dirs, files)
       IN  /\ files' = local.files
           /\ outcomes' = Append(outcomes, Outcome("asset", cursor.i, local.ok))
           /\ asset_map' = IF local.ok
                           THEN Put(asset_map, Str(AssetToken(id)),
                                    PathText(local.path))
                           ELSE asset_map
           /\ Goto(Seek(req.assets, "assets", cursor.i + 1))
    /\ UNCHANGED << req, content, dirs, has_frontmatter, frontmatter_fields,
                    cmd, invocations, response >>

\* one turn of "for i, attachment_id in enumerate(attachment_ids)"
FetchAttachment(resp) ==
    /\ pc = "fetch" /\ cursor.phase = "attachments"
    /\ LET id == req.assets.attachments.items[cursor.i]
           tokens == req.assets.attachment_urls
           local == download_attachment(id, AssetsDir, resp, dirs, files)
           paired == local.ok /\ tokens.iter /\ cursor.i <= Len(tokens.items)
           \* len() of a field that has none, a dict key that is no hashable
           raises == \/ local.ok /\ ~tokens.iter
                     \/ paired /\ tokens.items[cursor.i].type = "list"
       IN  /\ files' = local.files
           /\ outcomes' =
                 Append(outcomes, Outcome("attachment", cursor.i, local.ok))
           /\ asset_map' = IF paired /\ ~raises
                           THEN Put(asset_map, tokens.items[cursor.i],
                                    PathText(local.path))
                           ELSE asset_map
           /\ IF raises THEN Goto(Raised)
              ELSE Goto(Seek(req.assets, "attachments", cursor.i + 1))
    /\ UNCHANGED << req, content, dirs, has_frontmatter, frontmatter_fields,
                    cmd, invocations, response >>

\* one turn of "for url in asset_data.get('urls', [])"
FetchUrl(resp) ==
    /\ pc = "fetch" /\ cursor.phase = "urls"
    /\ LET url == req.assets.urls.items[cursor.i]
           \* client.get raises inside download_url for a url that is no string
           local == IF url.type = "str"
                    THEN download_url(url.text, AssetsDir, resp, dirs, files)
                    ELSE NotDownloaded(files)
           \* re.escape raises for a url that is no string
           raises == ~local.ok /\ url.type # "str"
       IN  /\ files' = local.files
           /\ outcomes' = Append(outcomes, Outcome("url", cursor.i, local.ok))
           /\ asset_map' = IF local.ok
                           THEN Put(asset_map, url, PathText(local.path))
                           ELSE asset_map
           /\ content' = IF ~local.ok /\ ~raises
                         THEN RemoveEmbeds(content, url.text)
                         ELSE content
           /\ IF raises THEN Goto(Raised)
              ELSE Goto(Seek(req.assets, "urls", cursor.i + 1))
    /\ UNCHANGED << req, dirs, has_frontmatter, frontmatter_fields, cmd,
                    invocations, response >>

\* the substitutions, the frontmatter inspection, input.md, header.tex and
\* the command.  The substitution loop stands outside every try: an exception
\* in it leaves the handler (the framework replies 500).
PrepareInvocation ==
    /\ pc = "rewrite"
    /\ IF ReplaceRaises(asset_map)
       THEN /\ Finish(Reply(500, <<>>, "Internal Server Error", 0), files)
            /\ UNCHANGED << content, has_frontmatter, frontmatter_fields, cmd >>
       ELSE LET text == ApplyMap(content, asset_map)
                fields == FrontmatterFields(text)
                withInput == WriteFile(files, InputFile, text)
                fs == IF req.output_format = "pdf"
                      THEN WriteFile(withInput, HeaderFile, << "header" >>)
                      ELSE withInput
            IN  /\ content' = text
                /\ has_frontmatter' = HasFrontmatter(text)
                /\ frontmatter_fields' = fields
                /\ files' = fs
                /\ cmd' = BuildCommand(req, fields, fs)
                /\ pc' = "run1"
                /\ UNCHANGED << dirs, response >>
    /\ UNCHANGED << req, asset_map, cursor, outcomes, assets_error,
                    invocations >>

Invocation(attempt, command, result) ==
    [attempt |-> attempt, cmd |-> command, result |-> result]

\* the bytes the engine leaves in the output file when it exits 0
Rendered(attempt) == << "rendered", attempt >>

\* a detail that carries stderr whole
MutShown(result) == result.stderr.len

\* detail=f"...{stderr[:500]}"
Shown(result) == Min(result.stderr.len, StderrCut)

\* return Response(content=output_file.read_bytes(), ...)
ReadOutput(fs, r) == Reply(200, fs[Normal(OutputFile(r))], "", 0)

\* the first subprocess.run and what follows it up to the next run or the
\* reply
RunEngine(result) ==
    /\ pc = "run1"
    /\ invocations' = Append(invocations, Invocation("1", cmd, result))
    /\ IF TimedOut(result)
       THEN /\ Finish(Reply(504, <<>>, "Conversion timeout", 0), files)
            /\ UNCHANGED cmd
       ELSE IF result.returncode # 0
       THEN IF RetryWithoutTemplate(req, result)
            THEN /\ cmd' = BuildFallback(req)
                 /\ pc' = "run2"
                 /\ UNCHANGED << dirs, files, response >>
            ELSE /\ Finish(Reply(500, <<>>, "Conversion failed",
                                 Shown(result)), files)
                 /\ UNCHANGED cmd
       ELSE LET fs == WriteFile(files, OutputFile(req), Rendered("1"))
            IN  /\ Finish(ReadOutput(fs, req), fs)
                /\ UNCHANGED cmd
    /\ UNCHANGED << req, content, asset_map, cursor, outcomes, assets_error,
                    has_frontmatter, frontmatter_fields >>

\* the second subprocess.run (cmd_fallback) and the reply
RunFallback(result) ==
    /\ pc = "run2"
    /\ invocations' = Append(invocations, Invocation("2", cmd, result))
    /\ IF TimedOut(result)
       THEN Finish(Reply(504, <<>>, "Conversion timeout", 0), files)
       ELSE IF result.returncode # 0
       THEN Finish(Reply(500, <<>>, "Conversion failed even without template",
                         Shown(result)), files)
       ELSE LET fs == WriteFile(files, OutputFile(req), Rendered("2"))
            IN  Finish(ReadOutput(fs, req), fs)
    /\ UNCHANGED << req, content, asset_map, cursor, outcomes, assets_error,
                    has_frontmatter, frontmatter_fields, cmd >>

(***************************************************************************)
(* POST /convert-file                                                      *)
(***************************************************************************)
\* entry: the size check, the workspace, the copy of the upload, the command
ConvertFile(r) ==
    /\ pc = "idle"
    /\ req' = r
    /\ IF r.file_size > MAX_FILE_SIZE
       THEN /\ pc' = "done"
            /\ response' = Reply(413, <<>>, "File too large", 0)
            /\ UNCHANGED << dirs, files, cmd >>
       ELSE LET ds == dirs \cup { TmpDir }
                input_file == Join(TmpDir, ParseName(r.filename))
            IN  IF ~CanWrite(ds, input_file)
                \* input_file.open("wb") raises outside the try
                THEN /\ pc' = "done"
                     /\ response' = Reply(500, <<>>, "Internal Server Error", 0)
                     /\ UNCHANGED << dirs, files, cmd >>
                ELSE LET fs == WriteFile(files, input_file, << "upload" >>)
                     IN  /\ dirs' = ds
                         /\ files' = fs
                         /\ cmd' = BuildFileCommand(r, fs)
                         /\ pc' = "frun"
                         /\ UNCHANGED response
    /\ UNCHANGED << content, asset_map, cursor, outcomes, assets_error,
                    has_frontmatter, frontmatter_fields, invocations >>

\* subprocess.run and the reply.  "except Exception" catches the timeout and
\* the HTTPException of a failed run alike and replies 500 with str(e); the
\* detail of a failed run carries stderr whole.
RunFileEngine(result) ==
    /\ pc = "frun"
    /\ invocations' = Append(invocations, Invocation("1", cmd, result))
    /\ IF TimedOut(result)
       THEN Finish(Reply(500, <<>>, "TimeoutExpired", 0), files)
       ELSE IF result.returncode # 0
       THEN Finish(Reply(500, <<>>, "Conversion failed", result.stderr.len),
                   files)
       ELSE LET fs == WriteFile(files, OutputFile(req), Rendered("1"))
            IN  Finish(ReadOutput(fs, req), fs)
    /\ UNCHANGED << req, content, asset_map, cursor, outcomes, assets_error,
                    has_frontmatter, frontmatter_fields, cmd >>

Next ==
    \/ \E r \in TextRequests : ConvertText(r)
    \/ \E resp \in FetchResponses : FetchAsset(resp)
    \/ \E resp \in FetchResponses : FetchAttachment(resp)
    \/ \E resp \in FetchResponses : FetchUrl(resp)
    \/ PrepareInvocation
    \/ \E result \in EngineResults : RunEngine(result)
    \/ \E result \in EngineResults : RunFallback(result)
    \/ \E r \in FileRequests : ConvertFile(r)
    \/ \E result \in EngineResults : RunFileEngine(result)

Spec == Init /\ [][Next]_vars

(***************************************************************************)
(* Properties.                                                             *)
(***************************************************************************)
IsText == req.endpoint = "text"
IsFile == req.endpoint = "file"
Last(q) == q[Len(q)]
MetadataFields == { "title", "author", "date" }

\* C1: in convert-from-text every engine invocation of a request, the first
\* and the fallback alike, carries a title, author or date metadata option
\* only for a field that is absent from the field-name set extracted from
\* the document's frontmatter.
C1_InjectionRespectsFrontmatter ==
    IsText =>
        \A k \in 1..Len(invocations) : \A f \in MetadataFields :
            HasOpt(invocations[k].cmd, "-M", f) => << f >> \notin frontmatter_fields

\* C2: in convert-from-text a second engine invocation is issued if and only
\* if the format is pdf, the request named a template and the first
\* invocation exited non-zero with the LaTeX-error marker in stderr; every
\* other non-zero exit of the first invocation ends the request at once with
\* a failure and no second invocation.
C2_FallbackCondition ==
    (IsText /\ Len(invocations) >= 1) =>
        LET first == invocations[1].result
            failed == first.duration <= EngineTimeout /\ first.returncode # 0
            retry == /\ req.output_format = "pdf"
                     /\ req.template \notin { Null, "" }
                     /\ failed
                     /\ first.stderr.latex
        IN  /\ retry <=> (pc = "run2" \/ Len(invocations) = 2)
            /\ pc = "run2" => Len(invocations) = 1 /\ response = NoReply
            /\ (failed /\ ~retry) =>
                   /\ pc = "done"
                   /\ response.status = 500
                   /\ Len(invocations) = 1

\* C2 witness: a fallback invocation has run for a template that is not on
\* disk
C2_Witness ==
    /\ IsText
    /\ Len(invocations) = 2
    /\ req.template = "missing"

\* C3: the fallback invocation has no --template and no --include-in-header
\* option, has the default link colours (linkcolor, urlcolor, toccolor =
\* blue), and the request's outcome is the fallback's: its output bytes on
\* exit 0, a failure on a non-zero exit.
C3_FallbackInvocation ==
    (IsText /\ Len(invocations) = 2) =>
        LET second == invocations[2]
            ran == second.result.duration <= EngineTimeout
        IN  /\ ~HasFlag(second.cmd, "--template")
            /\ ~HasFlag(second.cmd, "--include-in-header")
            /\ \A v \in { "linkcolor", "urlcolor", "toccolor" } :
                  /\ HasOptValue(second.cmd, "--variable", v, "blue")
                  /\ \A k \in 1..Len(second.cmd) :
                        (second.cmd[k].flag = "--variable" /\ second.cmd[k].key = v)
                            => second.cmd[k].value = "blue"
            /\ pc = "done"
            /\ (ran /\ second.result.returncode = 0) =>
                   /\ response.status = 200
                   /\ response.body = << "rendered", "2" >>
            /\ (ran /\ second.result.returncode # 0) =>
                   /\ response.status = 500
                   /\ response.body = <<>>

\* C3 witness: the fallback of a request with its own colours and a template
\* on disk has succeeded
C3_Witness ==
    /\ IsText
    /\ Len(invocations) = 2
    /\ req.colors.kind = "object"
    /\ req.template = "custom"
    /\ HasFlag(invocations[1].cmd, "--template")
    /\ response.status = 200

\* C4: in convert-from-text, when an engine invocation (the first or the
\* fallback) exceeds its timeout of 120, the request ends with status 504
\* and no engine invocation follows the one that timed out.
C4_TimeoutIsTerminal ==
    IsText =>
        \A k \in 1..Len(invocations) :
            invocations[k].result.duration > EngineTimeout =>
                /\ k = Len(invocations)
                /\ pc = "done"
                /\ response.status = 504

\* C4 witness: the fallback invocation timed out
C4_Witness ==
    /\ IsText
    /\ Len(invocations) = 2
    /\ invocations[2].result.duration > EngineTimeout

\* an upper bound on the handler steps still to come
Rank ==
    CASE pc = "idle" -> MaxRefs + 6
      [] pc = "fetch" -> 4 + RefCount(req.assets) - Len(outcomes)
      [] pc = "rewrite" -> 3
      [] pc = "run1" -> 2
      [] pc \in { "run2", "frun" } -> 1
      [] OTHER -> 0

\* the reply of a finished convert-from-text request is one of the three
\* terminal outcomes
TerminalOutcome ==
    \/ /\ response.status = 200
       /\ invocations # <<>>
       /\ Last(invocations).result.returncode = 0
       /\ response.body = << "rendered", Last(invocations).attempt >>
    \/ /\ response.status = 500
       /\ response.body = <<>>
       /\ response.stderr_shown <= 500
       /\ invocations # <<>> =>
             response.stderr_shown <= Last(invocations).result.stderr.len
       /\ invocations = <<>> => response.stderr_shown = 0
    \/ /\ response.status = 504
       /\ response.body = <<>>

AcceptedText == IsText /\ req.output_format \in SUPPORTED_FORMATS

\* the guard of one of the handler's steps holds
StepEnabled ==
    \/ pc \in { "rewrite", "run1", "run2" }
    \/ /\ pc = "fetch"
       /\ cursor.phase \in { "assets", "attachments", "urls" }
       /\ cursor.i \in 1..Len(Field(req.assets, cursor.phase).items)

\* C5: every convert-from-text request with a supported format terminates,
\* after at most two engine invocations, in exactly one terminal outcome:
\* Success (200 with the output bytes), Failure (500 whose detail carries at
\* most the first 500 characters of the engine's stderr) or Timeout (504);
\* nothing runs after the terminal outcome.  Termination is a rank that every
\* step decreases together with a step's guard holding until the reply.
C5_TerminatesInOneOutcome ==
    /\ [](AcceptedText =>
            /\ Len(invocations) <= 2
            /\ pc = "done" => TerminalOutcome
            /\ pc # "done" => response = NoReply /\ StepEnabled)
    /\ [][Rank' < Rank]_vars
    /\ [][pc # "done" /\ response = NoReply]_vars

\* C5 witness: a failure whose stderr is longer than 500 characters was
\* replied with exactly its first 500
C5_Witness ==
    /\ AcceptedText
    /\ pc = "done"
    /\ response.status = 500
    /\ Last(invocations).result.stderr.len > 500
    /\ response.stderr_shown = 500

\* C6: a convert-from-text request whose format is not supported fails with
\* status 400 before any side effect: no workspace, no fetch, no file
\* written, no engine invocation.
C6_UnsupportedFormatNoSideEffects ==
    (IsText /\ req.output_format \notin SUPPORTED_FORMATS) =>
        /\ pc = "done"
        /\ response.status = 400
        /\ dirs = BaseDirs
        /\ files = InitialFiles
        /\ outcomes = <<>>
        /\ asset_map = <<>>
        /\ invocations = <<>>

\* C6 witness: a request with an unsupported format and a bundle of
\* references was rejected
C6_Witness ==
    /\ IsText
    /\ req.output_format \notin SUPPORTED_FORMATS
    /\ req.assets.kind = "object"
    /\ RefCount(req.assets) > 0
    /\ pc = "done"

\* C7: convert-from-file reports the status classes of convert-from-text: an
\* unsupported format yields 400, a file over 50 MiB yields 413 before any
\* workspace is created or the engine invoked, a non-zero engine exit yields
\* 500 and an engine timeout yields 504.
C7_FileStatusClasses ==
    (IsFile /\ pc = "done") =>
        /\ (req.output_format \notin SUPPORTED_FORMATS
              /\ req.file_size <= MAX_FILE_SIZE) => response.status = 400
        /\ req.file_size > MAX_FILE_SIZE =>
              /\ response.status = 413
              /\ invocations = <<>>
              /\ files = InitialFiles
        /\ (invocations # <<>>
              /\ Last(invocations).result.duration > EngineTimeout) =>
              response.status = 504
        /\ (invocations # <<>>
              /\ Last(invocations).result.duration <= EngineTimeout
              /\ Last(invocations).result.returncode # 0) =>
              response.status = 500

\* C8: once a conversion request has finished, on every exit path, no file
\* written on behalf of the request (input document, header file, downloaded
\* assets, output artifact) remains on the filesystem.
C8_NoFileRemains ==
    pc = "done" => (files = InitialFiles /\ dirs = BaseDirs)

\* C9: for a convert-from-text request with a supported format, whatever the
\* asset bundle is and whatever each fetch returns, asset resolution never
\* aborts the request: the first engine invocation is always reached.
C9_AssetsNeverAbort ==
    (AcceptedText /\ pc = "done") => invocations # <<>>

\* the outcomes of the reference at index i of the list of kind
OutcomesOf(kind, i) ==
    { k \in 1..Len(outcomes) : outcomes[k].kind = kind /\ outcomes[k].i = i }

\* every reference of the bundle, by its place in its list
References(b) ==
    { << "asset", i >> : i \in 1..Len(b.assets.items) }
        \cup { << "attachment", i >> : i \in 1..Len(b.attachments.items) }
        \cup { << "url", i >> : i \in 1..Len(b.urls.items) }

\* an attachment has a token when the list of tokens reaches its index
HasToken(b, o) ==
    o.kind = "attachment" => o.i <= Len(b.attachment_urls.items)

\* the original token of the reference of an outcome
TokenOf(b, o) ==
    CASE o.kind = "asset" -> Str(AssetToken(b.assets.items[o.i]))
      [] o.kind = "attachment" -> b.attachment_urls.items[o.i]
      [] OTHER -> b.urls.items[o.i]

Keys(m) == { m[k].key : k \in 1..Len(m) }
ResolvedOutcomes == { outcomes[k] : k \in { n \in 1..Len(outcomes) : outcomes[n].ok } }

\* the asset processing of a convert-from-text request with a valid bundle
\* is over
ResolutionDone ==
    /\ AcceptedText
    /\ pc \notin { "idle", "fetch" }
    /\ ValidBundle(req.assets)

\* every reference has exactly one outcome
OneOutcomeEach ==
    /\ \A ref \in References(req.assets) :
          Cardinality(OutcomesOf(ref[1], ref[2])) = 1
    /\ Len(outcomes) = RefCount(req.assets)
    /\ ~assets_error

\* C10 as stated: for all valid bundles every reference yields exactly one
\* fetch outcome, the substitution map has an entry for every Resolved
\* outcome and none for an internal-asset or attachment reference whose
\* fetch failed.
C10_EntryForEveryResolved ==
    ResolutionDone =>
        /\ OneOutcomeEach
        /\ \A o \in ResolvedOutcomes :
              HasToken(req.assets, o) /\ TokenOf(req.assets, o) \in Keys(asset_map)
        /\ \A key \in Keys(asset_map) :
              \E o \in ResolvedOutcomes :
                  HasToken(req.assets, o) /\ TokenOf(req.assets, o) = key

\* C10 amended: for all valid bundles every reference yields exactly one
\* fetch outcome, and the keys of the substitution map are exactly the
\* tokens of the Resolved outcomes that have a token (every internal asset,
\* every external url, and every attachment whose index the token list
\* reaches): a Resolved attachment without a paired token has no entry, and
\* a failed internal asset or attachment adds none.
C10_EntryForEveryPairedResolved ==
    ResolutionDone =>
        /\ OneOutcomeEach
        /\ Keys(asset_map) =
              { TokenOf(req.assets, o) :
                  o \in { x \in ResolvedOutcomes : HasToken(req.assets, x) } }

\* C10 witness: a valid bundle of two references, one Resolved with its
\* entry, the other an internal asset or attachment whose fetch failed
C10_Witness ==
    /\ ResolutionDone
    /\ Len(outcomes) = 2
    /\ asset_map # <<>>
    /\ \E k \in 1..2 :
          outcomes[k].kind \in { "asset", "attachment" } /\ ~outcomes[k].ok


(***************************************************************************)
(* The asset resolution and the rewriting of POST /convert alone, up to    *)
(* the text written for the engine, over bundles whose tokens overlap and  *)
(* over a disk that can fill up.  The actions are those of Spec; the runs  *)
(* of the engine are left to Spec.                                         *)
(***************************************************************************)
LongAssetId == << "1", "2" >>

\* a replacement token that is the name of the file the server sends
PicToken == << "pic", ".png" >>

DocTokens ==
    << "see", " " >> \o AssetToken(LongAssetId) \o << " ", "and", " " >>
        \o AssetToken(AssetId)
DocEmbeds ==
    << "!", "[", "alt", "]", "(" >> \o Url1 \o << ")", " ", "[", "link", "]",
       "(" >> \o Url1 \o << ")", "\n" >>
DocNames ==
    << "!", "[", "a", "]", "(" >> \o PicToken \o << ")", " " >>
        \o AttachmentUrl \o << " " >> \o AssetToken(AssetId)
AssetDocs == { DocTokens, DocEmbeds, DocNames }

\* bundles every field of which is a list of the expected type
AssetBundles ==
    { b \in { Bundle(List(a), List(t), List(tu), List(u)) :
                a \in SeqsUpTo({ AssetId, LongAssetId }, MaxRefs),
                t \in SeqsUpTo({ AttachmentId }, MaxRefs),
                tu \in SeqsUpTo({ Str(AttachmentUrl), Str(PicToken) }, MaxRefs),
                u \in SeqsUpTo({ Str(Url1) }, MaxRefs) } :
        /\ RefCount(b) <= MaxRefs
        /\ Len(b.attachment_urls.items) <= Len(b.attachments.items) }

AssetRequests ==
    { Request("text", d, "pdf", Null, Null, Null, b, NoVars, NoVars, <<>>, 0) :
        d \in AssetDocs, b \in AssetBundles }

\* every way a download fails, a download of the largest size accepted, a
\* download the server names, and a disk that fills up during the write
AssetResponses ==
    { FetchResponse(st, 0, <<>>, "ok") :
        st \in { "network", "timeout", "http_error" } }
        \cup { FetchResponse("ok", n, <<>>, "ok") :
                 n \in { MAX_ASSET_SIZE, MAX_ASSET_SIZE + 1 } }
        \cup { FetchResponse("ok", 1, h, "ok") :
                 h \in { << "attachment; ", "filename=", "\"", "pic", ".png",
                            "\"" >>,
                         << "filename=", "sub", "/", "pic", ".png" >> } }
        \cup { FetchResponse("ok", 1, <<>>, "full") }

NextAssets ==
    \/ \E r \in AssetRequests : ConvertText(r)
    \/ \E resp \in AssetResponses : FetchAsset(resp)
    \/ \E resp \in AssetResponses : FetchAttachment(resp)
    \/ \E resp \in AssetResponses : FetchUrl(resp)
    \/ PrepareInvocation

SpecAssets == Init /\ [][NextAssets]_vars

(***************************************************************************)
(* Properties of the rewriting.                                            *)
(***************************************************************************)
\* the handler has written input.md and built the command
HandedOver == IsText /\ pc = "run1"

\* the text written for the engine
EngineText == files[Normal(InputFile)]

\* C11: after the substitutions, the text written for the engine contains no
\* occurrence of a token that was resolved to a local path
C11_NoResolvedTokenRemains ==
    HandedOver =>
        \A k \in 1..Len(asset_map) : ~Contains(EngineText, asset_map[k].key.text)

\* an image embed of url stands at i in s, its alt text ending before j
EmbedAt(s, url, i, j) ==
    /\ MatchAt(s, << "!", "[" >>, i)
    /\ j >= i + 2
    /\ MatchAt(s, << "]", "(" >> \o url \o << ")" >>, j)
    /\ \A k \in (i + 2)..(j - 1) : s[k] # "]"

Embeds(s, url) ==
    { e \in (1..Len(s)) \X (1..Len(s)) : EmbedAt(s, url, e[1], e[2]) }

\* s holds a placeholder that states the image is unavailable and carries alt
PlaceholderFor(s, alt) ==
    \E p \in 1..Len(s), q \in 1..Len(s) :
        /\ MatchAt(s, << "[", "Image unavailable: " >>, p)
        /\ q >= p + 2
        /\ MatchAt(s, alt \o << "]" >>, q)
        /\ \A k \in (p + 2)..(q - 1) : s[k] # "]"

Occurrences(s, t) == Cardinality({ i \in 1..Len(s) : MatchAt(s, t, i) })

\* the url whose download the handler waits for
UrlAtCursor == req.assets.urls.items[cursor.i]

\* this step is a download of an external url that fails
UrlFetchFails ==
    /\ pc = "fetch" /\ cursor.phase = "urls"
    /\ Len(outcomes') = Len(outcomes) + 1
    /\ ~outcomes'[Len(outcomes')].ok
    /\ UrlAtCursor.type = "str"

\* the download of url k of the bundle failed
UrlFailed(k) ==
    \E n \in 1..Len(outcomes) :
        outcomes[n] = Outcome("url", k, FALSE)

FetchStep == pc = "fetch" /\ Len(outcomes') = Len(outcomes) + 1

\* the step is the download at the cursor, answered by resp
FetchWith(resp) == FetchAsset(resp) \/ FetchAttachment(resp) \/ FetchUrl(resp)

\* a network error, a non-2xx status, a timeout, a response over the size
\* limit, a failure while writing
FailureMode(resp) ==
    \/ resp.status # "ok"
    \/ resp.size > MAX_ASSET_SIZE
    \/ resp.disk # "ok"

\* C13: each of the three downloads returns every failure (network error,
\* non-2xx status, timeout, response over 10 MiB, failure while writing) as a
\* failure value and never raises it, a download that returns failure leaves
\* no file, whole or partial, and a response of exactly 10 MiB is accepted
C13_FailedFetchLeavesNoFile ==
    [][FetchStep =>
          /\ \A resp \in AssetResponses :
                FetchWith(resp) =>
                    /\ FailureMode(resp) => ~outcomes'[Len(outcomes')].ok
                    /\ ~FailureMode(resp) /\ resp.header = <<>>
                          => outcomes'[Len(outcomes')].ok
          /\ ~outcomes'[Len(outcomes')].ok =>
                /\ files' = files
                /\ ~assets_error'
                /\ pc' \in { "fetch", "rewrite" }]_vars

(***************************************************************************)
(* The frontmatter inspection of POST /convert alone, over documents long  *)
(* enough to reach the end of the scan: requests without a bundle, from    *)
(* the entry to the command built for the engine.  The actions are those   *)
(* of Spec.                                                                *)
(***************************************************************************)
\* how many lines past the last line scanned a closing delimiter is placed
MaxPast == 1

\* '\n'.join(lines), computed by halves
RECURSIVE JoinLines(_)
JoinLines(lines) ==
    IF lines = <<>> THEN <<>>
    ELSE IF Len(lines) = 1 THEN Head(lines)
    ELSE LET h == Len(lines) \div 2
         IN  JoinLines(SubSeq(lines, 1, h)) \o << "\n" >>
                \o JoinLines(SubSeq(lines, h + 1, Len(lines)))

FillerLines(n) == [k \in 1..n |-> << "x" >>]

\* what stands before the opening delimiter: nothing, a blank line, a space
Leads == { <<>>, << "\n" >>, << " " >> }

\* the lines between the delimiters
FieldBlocks ==
    { <<>>,
      << << "title", ":", " ", "Foo" >> >>,
      << << " ", "author", " ", ":", " ", "A", ":", "b" >>,
         << "#", " ", "date", ":", " ", "x" >> >> }

\* the numbers of lines without ':' that follow the block: none, and those
\* that place the closing delimiter around the last line scanned
Pads == { 0 } \cup (ScanLimit - 3)..(ScanLimit - 2 + MaxPast)

FrontmatterDoc(lead, block, pad, closed) ==
    lead \o JoinLines(<< Delimiter >> \o block \o FillerLines(pad)
                        \o (IF closed THEN << Delimiter >> ELSE <<>>)
                        \o << << "Body" >> >>)

FrontmatterDocs ==
    { FrontmatterDoc(lead, block, pad, closed) :
        lead \in Leads, block \in FieldBlocks, pad \in Pads,
        closed \in BOOLEAN }

FrontmatterRequests ==
    { Request("text", d, "html", Null, ti, au, NoBundle, NoVars, NoVars, <<>>, 0) :
        d \in FrontmatterDocs, ti \in Titles, au \in Authors }

NextFrontmatter ==
    \/ \E r \in FrontmatterRequests : ConvertText(r)
    \/ PrepareInvocation

SpecFrontmatter == Init /\ [][NextFrontmatter]_vars

\* the text starts with the delimiter and none of lines 2 to 100 is a
\* closing delimiter line
Unterminated(text) ==
    LET lines == Split(text, "\n")
    IN  /\ Strip(lines[1]) = Delimiter
        /\ StartsWith(text, Delimiter)
        /\ \A k \in 2..Len(lines) :
              k <= ScanLimit => Strip(lines[k]) # Delimiter

\* a closing delimiter line stands after line 100
ClosedLate(text) ==
    LET lines == Split(text, "\n")
    IN  \E k \in 1..Len(lines) : k > ScanLimit /\ Strip(lines[k]) = Delimiter

\* C14: a document that starts with the delimiter and has no closing
\* delimiter line within its first 100 lines is classified as having no
\* frontmatter, with an empty field-name set, however many lines it has and
\* even if a closing delimiter stands after line 100; the title and author
\* the caller gave and the date are all injected
C14_UnterminatedIsNoFrontmatter ==
    HandedOver /\ Unterminated(req.content) =>
        /\ ~has_frontmatter
        /\ frontmatter_fields = {}
        /\ Truthy(req.title) => HasOptValue(cmd, "-M", "title", req.title)
        /\ Truthy(req.author) => HasOptValue(cmd, "-M", "author", req.author)
        /\ HasOpt(cmd, "-M", "date")

\* a document of more than 100 lines whose block is closed after line 100,
\* handed over with title, author and date injected
C14_Witness ==
    /\ HandedOver
    /\ Unterminated(req.content)
    /\ ClosedLate(req.content)
    /\ Contains(req.content, << "title", ":" >>)
    /\ HasOptValue(cmd, "-M", "title", "Bar")
    /\ HasOptValue(cmd, "-M", "author", "Ann")
    /\ HasOpt(cmd, "-M", "date")

(***************************************************************************)
(* Properties of the bundle processing.                                    *)
(***************************************************************************)
\* no download of an external url has failed
NoUrlFailed ==
    \A n \in 1..Len(outcomes) : outcomes[n].kind = "url" => outcomes[n].ok

\* C15: when the substitution map is empty (no bundle, or every download of
\* an internal asset or attachment failed) and no external url failed, the
\* text written for the engine is exactly the text of the request
C15_EmptyMapKeepsText ==
    HandedOver /\ asset_map = <<>> /\ NoUrlFailed => EngineText = req.content

\* a bundle with an asset and an attachment, both downloads failed, and the
\* text with its tokens written as the request gave it
C15_Witness ==
    /\ HandedOver
    /\ asset_map = <<>>
    /\ \E n \in 1..Len(outcomes) : outcomes[n] = Outcome("asset", 1, FALSE)
    /\ \E n \in 1..Len(outcomes) : outcomes[n] = Outcome("attachment", 1, FALSE)
    /\ Contains(req.content, AssetToken(AssetId))
    /\ EngineText = req.content

\* C16: when an exception is raised while the bundle is parsed or processed,
\* at whatever point, the request continues with an empty plan: no
\* substitution is applied, the text written for the engine is the text of
\* the request, and the engine is run
C16_ExceptionEmptiesPlan ==
    IsText /\ assets_error =>
        /\ pc # "fetch"
        /\ HandedOver => EngineText = req.content
        /\ pc = "done" => invocations # <<>>

\* entry k of the map has a token that is a proper part of the token of entry n
TokenWithin(k, n) ==
    /\ asset_map[k].key.text # asset_map[n].key.text
    /\ Contains(asset_map[n].key.text, asset_map[k].key.text)

\* C17: when one resolved token is a prefix or substring of another, the
\* longer one is substituted first: every occurrence of the longer token in
\* the document ends up replaced by the local path of its own reference,
\* whatever the order of the references in the bundle
C17_LongerTokenFirst ==
    HandedOver /\ NoUrlFailed =>
        \A k \in 1..Len(asset_map), n \in 1..Len(asset_map) :
            TokenWithin(k, n) =>
                Occurrences(EngineText, asset_map[n].local)
                    >= Occurrences(req.content, asset_map[n].key.text)

\* the entries of m in the order p
Reordered(m, p) == [k \in 1..Len(m) |-> m[p[k]]]

\* C19: the rewritten document does not depend on the order in which the
\* references are fetched or complete: for a fixed document, set of
\* references and outcomes, every order of the references yields the text
\* that is written for the engine
C19_OrderIndependent ==
    HandedOver /\ NoUrlFailed =>
        \A p \in Permutations(1..Len(asset_map)) :
            ApplyMap(req.content, Reordered(asset_map, p)) = EngineText

\* the logical identity of the reference of an outcome: its kind with its id
\* or url
IdentityOf(b, o) ==
    CASE o.kind = "asset" -> << "asset", b.assets.items[o.i] >>
      [] o.kind = "attachment" -> << "attachment", b.attachments.items[o.i] >>
      [] OTHER -> << "url", b.urls.items[o.i] >>

\* C20: references are de-duplicated by logical identity (kind with id or
\* url): a reference that appears more than once in the bundle is fetched at
\* most once and has one outcome
C20_FetchedAtMostOnce ==
    IsText =>
        \A n \in 1..Len(outcomes), m \in 1..Len(outcomes) :
            n # m =>
                IdentityOf(req.assets, outcomes[n])
                    # IdentityOf(req.assets, outcomes[m])

(***************************************************************************)
(* Properties of the frontmatter inspection.                               *)
(***************************************************************************)
\* the index of the first line of lines that is not blank, 0 when all are
FirstTextLine(lines) ==
    IF \A k \in 1..Len(lines) : Strip(lines[k]) = <<>> THEN 0
    ELSE CHOOSE k \in 1..Len(lines) :
            /\ Strip(lines[k]) # <<>>
            /\ \A n \in 1..(k - 1) : Strip(lines[n]) = <<>>

\* the index of the first delimiter line after line o, 0 when there is none
FirstDelimiterAfter(lines, o) ==
    IF \A k \in (o + 1)..Len(lines) : Strip(lines[k]) # Delimiter THEN 0
    ELSE CHOOSE k \in (o + 1)..Len(lines) :
            /\ Strip(lines[k]) = Delimiter
            /\ \A n \in (o + 1)..(k - 1) : Strip(lines[n]) # Delimiter

\* the trimmed text begins with the delimiter and the block it opens is
\* closed within the first 100 lines
ClosedBlock(text) ==
    LET lines == Split(text, "\n")
        o == FirstTextLine(lines)
    IN  /\ o # 0
        /\ Strip(lines[o]) = Delimiter
        /\ FirstDelimiterAfter(lines, o) \in 1..ScanLimit

\* the trimmed keys of the lines between the opening and the closing
\* delimiter that contain ':' and are no comment
KeysOfBlock(text) ==
    LET lines == Split(text, "\n")
        o == FirstTextLine(lines)
        c == FirstDelimiterAfter(lines, o)
    IN  { Strip(Split(lines[k], ":")[1]) :
            k \in { n \in (o + 1)..(c - 1) :
                      /\ Contains(lines[n], << ":" >>)
                      /\ Strip(lines[n]) = <<>> \/ Head(Strip(lines[n])) # "#" } }

\* C18: for every document whose trimmed text begins with the delimiter and
\* whose block is closed within the scan bound, blank lines or whitespace
\* before the opening delimiter included, the field-name set is exactly the
\* set of the trimmed keys (the text before the first ':') of the non-comment
\* lines that contain ':' between the opening and the closing delimiter
C18_FieldsAreKeysOfBlock ==
    HandedOver /\ ClosedBlock(req.content) =>
        frontmatter_fields = KeysOfBlock(req.content)

(***************************************************************************)
(* Properties of the downloaded files.                                     *)
(***************************************************************************)
\* the local path the map holds for key
LocalOf(key) ==
    asset_map[CHOOSE k \in 1..Len(asset_map) : asset_map[k].key = key].local

\* the bytes the download of the reference of an outcome writes
BytesOf(b, o) ==
    CASE o.kind = "asset" -> << "asset" >> \o b.assets.items[o.i]
      [] o.kind = "attachment" -> << "attachment" >> \o b.attachments.items[o.i]
      [] OTHER -> << "url" >> \o b.urls.items[o.i].text

\* the resolved outcomes whose token has an entry in the map
MappedOutcomes ==
    { o \in ResolvedOutcomes :
        /\ HasToken(req.assets, o)
        /\ TokenOf(req.assets, o) \in Keys(asset_map) }

\* the file at the path a local path text names holds data
HoldsBytes(local, data) ==
    \E q \in DOMAIN files : PathText(q) = local /\ files[q] = data

\* C21: within one request two distinct references that both resolve never
\* share a local file: no successful fetch overwrites the file of an earlier
\* one, and every entry of the substitution map points to a file that holds
\* the bytes of its own reference, whatever file name the server supplies
C21_NoSharedLocalFile ==
    IsText /\ pc \in { "fetch", "rewrite" } /\ ValidBundle(req.assets) =>
        \A o1 \in MappedOutcomes, o2 \in MappedOutcomes :
            IdentityOf(req.assets, o1) # IdentityOf(req.assets, o2)
              /\ TokenOf(req.assets, o1) # TokenOf(req.assets, o2)
                => /\ LocalOf(TokenOf(req.assets, o1))
                        # LocalOf(TokenOf(req.assets, o2))
                   /\ HoldsBytes(LocalOf(TokenOf(req.assets, o1)),
                                 BytesOf(req.assets, o1))

\* C22: every file a successful fetch writes lies inside the workspace of the
\* request, whatever file name the server supplies in the content-disposition
\* header (path separators, parent-directory segments, an absolute path): no
\* fetch creates or overwrites a file outside the workspace
C22_FetchStaysInWorkspace ==
    IsText =>
        \A q \in DOMAIN files :
            \/ IsUnder(q, TmpDir)
            \/ q \in DOMAIN InitialFiles /\ files[q] = InitialFiles[q]

=============================================================================
